---------------------------- MODULE Spec2Model ----------------------------
(***************************************************************************)
(* A model of indigo.py: the ingestion loop of main(), the recursive walk  *)
(* count_keys() and the per-key sampler Reservoir.                         *)
(*                                                                         *)
(* JSON values are tagged records [t |-> kind, v |-> payload].  Python     *)
(* dicts are functions with a finite domain of strings; a dict literal of  *)
(* a document is a sequence of (k, v) pairs, because the walk visits the   *)
(* pairs in insertion order.  The recursion of count_keys is kept as an    *)
(* explicit stack of loop frames, one frame per active for-loop.           *)
(***************************************************************************)
EXTENDS Integers, Sequences, FiniteSets, TLC

(* ----------------------------- bounds ---------------------------------- *)
MaxLines == 2        \* lines read from the input before it must end
MaxSize == 2         \* largest --size modelled
MaxLength == 2       \* largest --max-length modelled

(* ----------------------------- values ---------------------------------- *)
PyNone == [t |-> "null", v |-> 0]
PyBool(b) == [t |-> "bool", v |-> b]
PyInt(n) == [t |-> "int", v |-> n]
PyStr(s) == [t |-> "str", v |-> s]
Dict(items) == [t |-> "dict", v |-> items]
List(elems) == [t |-> "list", v |-> elems]
KV(k, val) == [k |-> k, v |-> val]
JSONDecodeError == [t |-> "JSONDecodeError", v |-> 0]

\* isinstance(value, str)
IsStr(value) == value.t = "str"
\* A type check that lets every scalar through.
IsPrimitive_Any(value) == TRUE

\* isinstance(value, (str, int, float, bool))
IsPrimitive(value) == value.t \in {"str", "int", "float", "bool"}
\* isinstance(doc, dict), isinstance(v, list)
IsDict(value) == value.t = "dict"
IsList(value) == value.t = "list"

\* Python's == on scalars: True == 1 == 1.0, strings only equal strings,
\* None only equals None.
IsNumber(value) == value.t \in {"int", "float", "bool"}
Num(value) == IF value.t = "bool" THEN (IF value.v THEN 1 ELSE 0) ELSE value.v
PyEq(a, b) ==
    IF IsNumber(a) /\ IsNumber(b) THEN Num(a) = Num(b)
    ELSE IF IsStr(a) /\ IsStr(b) THEN a.v = b.v
    ELSE a.t = "null" /\ b.t = "null"

\* set.add: a value equal to a member leaves the set as it is.
SetAdd(S, value) == IF \E e \in S : PyEq(e, value) THEN S ELSE S \cup {value}

\* set(v) for a list v: the members are inserted in list order.
RECURSIVE PySet(_)
PySet(v) == IF v = <<>> THEN {}
            ELSE SetAdd(PySet(SubSeq(v, 1, Len(v) - 1)), v[Len(v)])

(* ------------------------------ dicts ---------------------------------- *)
EmptyMap == [x \in {} |-> 0]
Get(f, k, default) == IF k \in DOMAIN f THEN f[k] ELSE default
\* A mapping that forgets its other keys on every write.
Put_Reset(f, k, val) == [x \in {k} |-> val]

Put(f, k, val) == [x \in DOMAIN f \cup {k} |-> IF x = k THEN val ELSE f[x]]
\* A counter whose entry is created at zero.
Inc_FirstZero(c, key) == Put(c, key, IF key \in DOMAIN c THEN c[key] + 1 ELSE 0)

\* c[key] += 1 on a collections.Counter
Inc(c, key) == Put(c, key, Get(c, key, 0) + 1)

(* --------------------------- input lines ------------------------------- *)
\* The lines the input may hold, with the value json.loads gives for each.
Inputs == {
    [line |-> "\n", doc |-> JSONDecodeError],
    [line |-> " \n", doc |-> JSONDecodeError],
    [line |-> "{\"a\": 1,\n", doc |-> JSONDecodeError],
    [line |-> "{\"a\": 1, \"b\": {\"c\": 2}}\n",
     doc |-> Dict(<<KV("a", PyInt(1)), KV("b", Dict(<<KV("c", PyInt(2))>>))>>)],
    [line |-> "{\"a\": 3, \"b\": {\"c\": 4}}\n",
     doc |-> Dict(<<KV("a", PyInt(3)), KV("b", Dict(<<KV("c", PyInt(4))>>))>>)],
    [line |-> "{\"a\": [1, 2, 3]}\n",
     doc |-> Dict(<<KV("a", List(<<PyInt(1), PyInt(2), PyInt(3)>>))>>)],
    [line |-> "{}\n", doc |-> Dict(<<>>)],
    [line |-> "[1]\n", doc |-> List(<<PyInt(1)>>)],
    [line |-> "{\"a\": null, \"s\": \"xyz\"}\n",
     doc |-> Dict(<<KV("a", PyNone), KV("s", PyStr("xyz"))>>)],
    [line |-> "{\"a\": true, \"s\": \"xy\"}\n",
     doc |-> Dict(<<KV("a", PyBool(TRUE)), KV("s", PyStr("xy"))>>)],
    [line |-> "{\"x\": [{\"a\": 1}, {\"a\": 3}, {\"a\": 5}, 7]}\n",
     doc |-> Dict(<<KV("x", List(<<Dict(<<KV("a", PyInt(1))>>),
                                   Dict(<<KV("a", PyInt(3))>>),
                                   Dict(<<KV("a", PyInt(5))>>),
                                   PyInt(7)>>))>>)]
}
Lines == {r.line : r \in Inputs}

\* A parser that yields None for a malformed line.
json_loads_Lenient(line) ==
    LET doc == (CHOOSE r \in Inputs : r.line = line).doc IN
    IF doc.t = "JSONDecodeError" THEN PyNone ELSE doc

\* json.loads(line)
json_loads(line) == (CHOOSE r \in Inputs : r.line = line).doc

\* line.strip()
Whitespace == {" ", "\n", "\t", "\r"}
RECURSIVE lstrip(_)
lstrip(s) == IF Len(s) > 0 /\ SubSeq(s, 1, 1) \in Whitespace
             THEN lstrip(SubSeq(s, 2, Len(s))) ELSE s
RECURSIVE rstrip(_)
rstrip(s) == IF Len(s) > 0 /\ SubSeq(s, Len(s), Len(s)) \in Whitespace
             THEN rstrip(SubSeq(s, 1, Len(s) - 1)) ELSE s
\* A blank check on the unstripped line.
strip_None(s) == s

strip(s) == rstrip(lstrip(s))

(* ------------------------------ digest --------------------------------- *)
\* The values of --encoding modelled.  Bytes are written as the characters
\* they stand for, with \xNN for the others.
Encodings == {"utf-8", "utf-16"}

\* s.encode("utf-16") without the byte order mark.
RECURSIVE utf16(_)
utf16(s) == IF Len(s) = 0 THEN ""
            ELSE SubSeq(s, 1, 1) \o "\\x00" \o utf16(SubSeq(s, 2, Len(s)))

\* line.encode(enc), the lines being ASCII.
encode(line, enc) == IF enc = "utf-16" THEN "\\xff\\xfe" \o utf16(line) ELSE line

\* A digest that is started afresh on every line.
update_Reset(h, data) == data

\* sha1.update(data): h stands for the bytes fed so far.
update(h, data) == h \o data

(* ------------------------------ state ---------------------------------- *)
VARIABLES
    size,        \* Reservoir.size (args.size)
    max_length,  \* Reservoir.max_length (args.max_length)
    encoding,    \* args.encoding
    storage,     \* Reservoir.storage: key -> list, the sample
    uniq,        \* Reservoir.uniq: key -> set
    counter,     \* Reservoir.counter: key -> number of add calls
    counters,    \* main's counters: key path -> occurrences
    total,       \* main's total
    sha1,        \* the bytes fed to sha1 so far
    pc,          \* "read" | "walk" | "done" | "failed"
    stack,       \* the active for-loops of count_keys, innermost last
    stdout,      \* the documents printed
    m,           \* add's local m: the last number drawn, NoDraw before any
    read,        \* history: the lines read so far
    calls        \* history: the add calls so far, [key, value]

vars == <<size, max_length, encoding, storage, uniq, counter, counters, total, sha1,
          pc, stack, stdout, m, read, calls>>

NoDraw == -1    \* the value of m when add drew no random number

(* ---------------------------- Reservoir -------------------------------- *)
\* A truncation without the annotation.
Truncate_NoSuffix(s, n) == SubSeq(s, 1, n)

\* "{} ({}) ...".format(value[: self.max_length], len(value))
Truncate(s, n) == SubSeq(s, 1, n) \o " (" \o ToString(Len(s)) \o ") ..."

\* The value add() works with after the length check.
Normalise(value, n) ==
    IF IsStr(value) /\ Len(value.v) > n THEN PyStr(Truncate(value.v, n)) ELSE value

\* A unique-example set without a cap.
AddUniq_NoCap(u, sz, value) == IF IsPrimitive(value) THEN SetAdd(u, value) ELSE u

\* A unique-example set that stops one member early.
AddUniq_CapEarly(u, sz, value) ==
    IF Cardinality(u) + 1 < sz /\ IsPrimitive(value) THEN SetAdd(u, value) ELSE u

\* The unique-example set of key after add(key, value).
AddUniq(u, sz, value) ==
    IF Cardinality(u) < sz /\ IsPrimitive(value) THEN SetAdd(u, value) ELSE u

\* True when add(key, ...) takes the else branch and draws m.
Draws(key) == ~(Len(Get(storage, key, <<>>)) < size)

\* The range of random.randint(0, self.counter[key]); n is the count after
\* the increment.
DrawRange(n) == 0 .. n

\* A sample that is never capped.
AddStorage_NoCap(s, sz, value, draw) == Append(s, value)

\* A sample that grows at the front.
AddStorage_Prepend(s, sz, value, draw) ==
    IF Len(s) < sz THEN <<value>> \o s
    ELSE IF draw < sz THEN [s EXCEPT ![draw + 1] = value]
    ELSE s

\* A replacement that appends instead of overwriting.
AddStorage_GrowOnDraw(s, sz, value, draw) ==
    IF Len(s) < sz THEN Append(s, value)
    ELSE IF draw < sz THEN Append(s, value)
    ELSE s

\* The sample of key after add(key, value) when randint returns draw.
AddStorage(s, sz, value, draw) ==
    IF Len(s) < sz THEN Append(s, value)
    ELSE IF draw < sz THEN [s EXCEPT ![draw + 1] = value]
    ELSE s

\* An add that looks the unique set up without creating it.
add_LazyUniq(key, value, draw) ==
    LET val == Normalise(value, max_length)
        u == AddUniq(Get(uniq, key, {}), size, val) IN
    /\ counter' = Inc(counter, key)
    /\ uniq' = IF u = Get(uniq, key, {}) THEN uniq ELSE Put(uniq, key, u)
    /\ storage' = Put(storage, key, AddStorage(Get(storage, key, <<>>), size, val, draw))
    /\ m' = draw
    /\ calls' = Append(calls, [key |-> key, value |-> value])

\* Reservoir.add(key, value), draw being the number random.randint returns.
add(key, value, draw) ==
    LET val == Normalise(value, max_length) IN
    /\ counter' = Inc(counter, key)
    /\ uniq' = Put(uniq, key, AddUniq(Get(uniq, key, {}), size, val))
    /\ storage' = Put(storage, key, AddStorage(Get(storage, key, <<>>), size, val, draw))
    /\ m' = draw
    /\ calls' = Append(calls, [key |-> key, value |-> value])

\* A reduction read off the unique-example sets.
unique_storage_FromUniq == [k \in DOMAIN storage |-> Get(uniq, k, {})]

\* Reservoir.unique_storage()
unique_storage == [k \in DOMAIN storage |-> PySet(storage[k])]

(* ---------------------------- count_keys ------------------------------- *)
Frame(isList, items, prefix) == [list |-> isList, items |-> items, prefix |-> prefix]

\* A walk that also descends into a list it is called with.
Call_BareList(doc, prefix, stk) ==
    IF IsDict(doc) THEN Append(stk, Frame(FALSE, doc.v, prefix))
    ELSE IF IsList(doc) THEN Append(stk, Frame(TRUE, doc.v, prefix))
    ELSE stk

\* Entering count_keys(doc, prefix): a dict starts the loop over its items,
\* anything else returns at once.
Call(doc, prefix, stk) ==
    IF IsDict(doc) THEN Append(stk, Frame(FALSE, doc.v, prefix)) ELSE stk

\* A for-loop with nothing left to visit ends, and so may its callers.
RECURSIVE Unwind(_)
Unwind(stk) ==
    IF stk # <<>> /\ stk[Len(stk)].items = <<>>
    THEN Unwind(SubSeq(stk, 1, Len(stk) - 1)) ELSE stk

\* The stack with the innermost loop advanced past its current item.
Advance(stk) ==
    [stk EXCEPT ![Len(stk)].items = Tail(stk[Len(stk)].items)]

Resume(stk) == IF stk = <<>> THEN "read" ELSE "walk"

Init ==
    /\ size \in 0 .. MaxSize
    /\ max_length \in 0 .. MaxLength
    /\ encoding \in Encodings
    /\ storage = EmptyMap
    /\ uniq = EmptyMap
    /\ counter = EmptyMap
    /\ counters = EmptyMap
    /\ total = 0
    /\ sha1 = ""
    /\ pc = "read"
    /\ stack = <<>>
    /\ stdout = <<>>
    /\ m = NoDraw
    /\ read = <<>>
    /\ calls = <<>>

\* One iteration of the for-loop of main up to the call of count_keys.
ReadLine(line) ==
    /\ pc = "read"
    /\ Len(read) < MaxLines
    /\ read' = Append(read, line)
    /\ sha1' = update(sha1, encode(line, encoding))
    /\ IF Len(strip(line)) = 0
       THEN UNCHANGED <<total, pc, stack>>
       ELSE /\ total' = total + 1
            /\ IF json_loads(line) = JSONDecodeError
               THEN pc' = "failed" /\ UNCHANGED stack
               ELSE /\ stack' = Unwind(Call(json_loads(line), "", <<>>))
                    /\ pc' = Resume(stack')
    /\ UNCHANGED <<size, max_length, encoding, storage, uniq, counter, counters, stdout, m, calls>>

\* One iteration of "for k, v in doc.items()" whose value is a dict.
CountDict ==
    /\ pc = "walk"
    /\ LET f == stack[Len(stack)]
           key == f.prefix \o Head(f.items).k
           v == Head(f.items).v IN
       /\ ~f.list
       /\ IsDict(v)
       /\ counters' = Inc(counters, key)
       /\ stack' = Unwind(Call(v, key \o ".", Advance(stack)))
       /\ pc' = Resume(stack')
    /\ UNCHANGED <<size, max_length, encoding, storage, uniq, counter, total, sha1, stdout, m, read, calls>>

\* Inc applied n times.
RECURSIVE IncBy(_, _, _)
IncBy(c, key, n) == IF n = 0 THEN c ELSE Inc(IncBy(c, key, n - 1), key)

\* A list counted once per element instead of once.
CountList_PerElement ==
    /\ pc = "walk"
    /\ LET f == stack[Len(stack)]
           key == f.prefix \o Head(f.items).k
           v == Head(f.items).v IN
       /\ ~f.list
       /\ IsList(v)
       /\ counters' = IncBy(counters, key, Len(v.v))
       /\ stack' = Unwind(Append(Advance(stack), Frame(TRUE, v.v, key \o "[].")))
       /\ pc' = Resume(stack')
    /\ UNCHANGED <<size, max_length, encoding, storage, uniq, counter, total, sha1, stdout, m, read, calls>>

\* One iteration of "for k, v in doc.items()" whose value is a list.
CountList ==
    /\ pc = "walk"
    /\ LET f == stack[Len(stack)]
           key == f.prefix \o Head(f.items).k
           v == Head(f.items).v IN
       /\ ~f.list
       /\ IsList(v)
       /\ counters' = Inc(counters, key)
       /\ stack' = Unwind(Append(Advance(stack), Frame(TRUE, v.v, key \o "[].")))
       /\ pc' = Resume(stack')
    /\ UNCHANGED <<size, max_length, encoding, storage, uniq, counter, total, sha1, stdout, m, read, calls>>

\* One iteration of "for k, v in doc.items()" whose value is a scalar.
CountScalar ==
    /\ pc = "walk"
    /\ LET f == stack[Len(stack)]
           key == f.prefix \o Head(f.items).k
           v == Head(f.items).v IN
       /\ ~f.list
       /\ ~IsDict(v) /\ ~IsList(v)
       /\ counters' = Inc(counters, key)
       /\ IF Draws(key)
          THEN \E draw \in DrawRange(Get(counter, key, 0) + 1) : add(key, v, draw)
          ELSE add(key, v, NoDraw)
       /\ stack' = Unwind(Advance(stack))
       /\ pc' = Resume(stack')
    /\ UNCHANGED <<size, max_length, encoding, total, sha1, stdout, read>>

\* One iteration of "for item in v": count_keys(item, prefix=key + "[].").
CountItem ==
    /\ pc = "walk"
    /\ LET f == stack[Len(stack)] IN
       /\ f.list
       /\ stack' = Unwind(Call(Head(f.items), f.prefix, Advance(stack)))
       /\ pc' = Resume(stack')
    /\ UNCHANGED <<size, max_length, encoding, storage, uniq, counter, counters, total, sha1,
                   stdout, m, read, calls>>

\* The values datetime.datetime.now().isoformat() may take.
Dates == {"2026-01-01T00:00:00", "2026-01-02T00:00:00"}

\* End of input: the report is assembled and printed.
Report ==
    /\ pc = "read"
    /\ \E date \in Dates :
          stdout' = Append(stdout,
             [meta |-> [size |-> size, date |-> date, total |-> total, sha1 |-> sha1],
              c |-> counters, s |-> storage, u |-> unique_storage, v |-> uniq])
    /\ pc' = "done"
    /\ UNCHANGED <<size, max_length, encoding, storage, uniq, counter, counters, total, sha1,
                   stack, m, read, calls>>

Next ==
    \/ \E line \in Lines : ReadLine(line)
    \/ CountDict
    \/ CountList
    \/ CountScalar
    \/ CountItem
    \/ Report

Spec == Init /\ [][Next]_vars

(* ------------------------- helpers of the claims ----------------------- *)
Range(s) == {s[i] : i \in 1 .. Len(s)}

RECURSIVE SumOver(_, _)
SumOver(f, K) == IF K = {} THEN 0
                 ELSE LET k == CHOOSE x \in K : TRUE IN f[k] + SumOver(f, K \ {k})
Sum(f) == SumOver(f, DOMAIN f)

\* A line made of whitespace only.
IsBlank(line) == \A i \in 1 .. Len(line) : SubSeq(line, i, i) \in Whitespace
\* The value the line stands for, read off the table of inputs.
Parsed(line) == (CHOOSE r \in Inputs : r.line = line).doc
IsMalformed(line) == ~IsBlank(line) /\ Parsed(line).t = "JSONDecodeError"

\* A line has been processed to its end.
BetweenLines == pc \in {"read", "done"}

\* The add calls made for key, oldest first.
CallsFor(key) == SelectSeq(calls, LAMBDA c : c.key = key)

\* This step is a call of add; LastCall is that call.
AddStep == calls' # calls
LastCall == calls'[Len(calls')]

(* ------------------------------- C1 ------------------------------------ *)
\* C1: in every reachable state, for every key path, the sample holds at
\* most size values and the unique-example set at most size members.
C1_Bounded ==
    \A k \in DOMAIN storage \cup DOMAIN uniq :
        /\ Len(Get(storage, k, <<>>)) <= size
        /\ Cardinality(Get(uniq, k, {})) <= size

\* A key that has received more values than size, with both collections full.
C1_Witness ==
    \E k \in DOMAIN storage :
        /\ size > 0
        /\ counter[k] > size
        /\ Len(storage[k]) = size
        /\ Cardinality(uniq[k]) = size

(* ------------------------------- C2 ------------------------------------ *)
ArrayLine == "{\"a\": [1, 2, 3]}\n"

\* C2: after the document {"a": [1,2,3]} has been walked, counter["a"] is 1
\* and the scalar elements 1, 2, 3 have been added to the sampler under the
\* key path "a[]", in element order.
C2_ArrayScalarsSampled ==
    (BetweenLines /\ read = <<ArrayLine>>) =>
        /\ counters = [k \in {"a"} |-> 1]
        /\ [i \in 1 .. Len(CallsFor("a[]")) |-> CallsFor("a[]")[i].value]
              = <<PyInt(1), PyInt(2), PyInt(3)>>

(* ------------------------------- C3 ------------------------------------ *)
\* C3 as stated: after every fully processed line the sum of all counter
\* values is at least total.
C3_SumAtLeastTotal == BetweenLines => Sum(counters) >= total

\* The documents read so far that are mappings with at least one key.
NonEmptyMappings ==
    {i \in 1 .. Len(read) :
        /\ ~IsBlank(read[i])
        /\ Parsed(read[i]).t = "dict"
        /\ Parsed(read[i]).v # <<>>}

\* C3 amended: after every fully processed line the sum of all counter
\* values is at least the number of documents processed that are mappings
\* with at least one key.
C3_SumAtLeastNonEmpty ==
    BetweenLines => Sum(counters) >= Cardinality(NonEmptyMappings)

\* An empty document and a non-empty one have both been processed.
C3_Witness ==
    /\ pc = "done"
    /\ total = 2
    /\ Cardinality(NonEmptyMappings) = 1
    /\ Sum(counters) >= 1

(* ------------------------------- C4 ------------------------------------ *)
\* C4: for every key that has received at most size add calls, the sample
\* is the sequence of normalised values passed to add for that key, in
\* arrival order.
C4_ArrivalOrder ==
    \A k \in DOMAIN counter :
        counter[k] <= size =>
            storage[k] = [i \in 1 .. Len(CallsFor(k)) |->
                             Normalise(CallsFor(k)[i].value, max_length)]

\* The two-document scenario of the specification.
C4_Witness ==
    /\ pc = "done"
    /\ total = 2
    /\ "a" \in DOMAIN storage /\ storage["a"] = <<PyInt(1), PyInt(3)>>
    /\ "b.c" \in DOMAIN storage /\ storage["b.c"] = <<PyInt(2), PyInt(4)>>

(* ------------------------------- C5 ------------------------------------ *)
\* C5: unique_storage() has the keys of the sample, and for every key its
\* value is a set of values of the sample that holds an equal of every
\* value of the sample and no two equal members; the report's "u" is that.
C5_UniqueReduction ==
    /\ DOMAIN unique_storage = DOMAIN storage
    /\ \A k \in DOMAIN storage :
          /\ unique_storage[k] \subseteq Range(storage[k])
          /\ \A x \in Range(storage[k]) : \E e \in unique_storage[k] : PyEq(e, x)
          /\ \A e1, e2 \in unique_storage[k] : PyEq(e1, e2) => e1 = e2
    /\ pc = "done" => stdout[1].u = unique_storage

\* A report whose reduction differs from the independent unique set.
C5_Witness ==
    /\ pc = "done"
    /\ \E k \in DOMAIN storage :
          /\ stdout[1].u[k] # {}
          /\ stdout[1].u[k] # stdout[1].v[k]

(* ------------------------------- C6 ------------------------------------ *)
\* C6: every replacement draw m satisfies 0 <= m < occurrences[key], the
\* count of add calls for the key including the drawing call.
C6_DrawBelowOccurrences ==
    (calls # <<>> /\ m # NoDraw) =>
        0 <= m /\ m < Len(CallsFor(calls[Len(calls)].key))

(* ------------------------------- C7 ------------------------------------ *)
\* The form a string is stored in under max_length.
StoredForm(s) ==
    IF Len(s) > max_length
    THEN SubSeq(s, 1, max_length) \o " (" \o ToString(Len(s)) \o ") ..."
    ELSE s

\* C7: an add of a string writes the string's stored form (its first
\* max_length characters and the suffix with the original length when it is
\* longer than max_length, the string itself otherwise) and nothing else to
\* the sample and to the unique set.
C7_Truncation ==
    [][(AddStep /\ LastCall.value.t = "str") =>
        LET key == LastCall.key
            val == PyStr(StoredForm(LastCall.value.v))
            old == Get(storage, key, <<>>)
            oldu == Get(uniq, key, {}) IN
        /\ Len(old) < size => storage'[key] = Append(old, val)
        /\ Len(old) >= size =>
              \/ storage'[key] = old
              \/ \E j \in 1 .. Len(old) : storage'[key] = [old EXCEPT ![j] = val]
        /\ uniq'[key] = IF Cardinality(oldu) < size THEN oldu \cup {val} ELSE oldu
      ]_vars

\* A string of three characters stored under max_length = 2.
C7_Witness ==
    /\ max_length = 2
    /\ "s" \in DOMAIN storage
    /\ storage["s"] = <<PyStr("xy (3) ...")>>
    /\ uniq["s"] = {PyStr("xy (3) ...")}

(* ------------------------------- C8 ------------------------------------ *)
\* This step reads a blank line.
ReadsBlank == Len(read') = Len(read) + 1 /\ IsBlank(read'[Len(read')])

\* C8: reading a blank line leaves total, the counters, the samples, the
\* unique sets and the occurrence counts unchanged and feeds the line to the
\* digest; at report time total is the number of non-blank lines.
C8_BlankLine ==
    /\ [][ReadsBlank =>
            /\ UNCHANGED <<total, counters, storage, uniq, counter>>
            /\ sha1' = sha1 \o encode(read'[Len(read')], encoding)]_vars
    /\ [](pc = "done" =>
            total = Cardinality({i \in 1 .. Len(read) : ~IsBlank(read[i])}))

\* A report after a document and a blank line.
C8_Witness ==
    /\ pc = "done"
    /\ Len(read) = 2
    /\ IsBlank(read[2])
    /\ total = 1
    /\ counters # EmptyMap

(* ------------------------------- C9 ------------------------------------ *)
\* C9: in every state in which a malformed line has been read, that line
\* is the last line read, the run has failed and nothing has been printed.
C9_FatalParseError ==
    \A i \in 1 .. Len(read) :
        IsMalformed(read[i]) => i = Len(read) /\ pc = "failed" /\ stdout = <<>>

\* A failure on the second line, after a document that was processed.
C9_Witness ==
    /\ pc = "failed"
    /\ Len(read) = 2
    /\ total = 2
    /\ counters # EmptyMap

(* ------------------------------- C10 ----------------------------------- *)
\* C10: an add of null never fails and never puts null into a unique set;
\* it increments the occurrence count of the key, leaves the unique set as
\* it was, and is appended to a sample that is not full or else written at
\* the drawn index when that index is below size.
C10_NullSampled ==
    /\ [](\A k \in DOMAIN uniq : \A e \in uniq[k] : e.t # "null")
    /\ [][(AddStep /\ LastCall.value.t = "null") =>
            LET key == LastCall.key
                old == Get(storage, key, <<>>) IN
            /\ pc' # "failed"
            /\ counter'[key] = Get(counter, key, 0) + 1
            /\ uniq'[key] = Get(uniq, key, {})
            /\ Len(old) < size => storage'[key] = Append(old, PyNone)
            /\ Len(old) >= size =>
                  /\ m' # NoDraw
                  /\ storage'[key] = IF m' < size THEN [old EXCEPT ![m' + 1] = PyNone]
                                     ELSE old
          ]_vars

\* A null that replaced the integer of an earlier document.
C10_Witness ==
    /\ "a" \in DOMAIN storage
    /\ storage["a"] = <<PyNone>>
    /\ counter["a"] = 2
    /\ uniq["a"] = {PyInt(1)}

(* ------------------------------- C11 ----------------------------------- *)
\* The bytes of the lines in order, under the encoding enc.
RECURSIVE DigestOf(_, _)
DigestOf(lines, enc) ==
    IF lines = <<>> THEN ""
    ELSE DigestOf(SubSeq(lines, 1, Len(lines) - 1), enc) \o encode(lines[Len(lines)], enc)

\* C11: whatever the size, the max_length and the draws made, the digest
\* is the digest of the lines read, in order, under the encoding; so is the
\* digest of the report.
C11_DigestDeterminism ==
    /\ sha1 = DigestOf(read, encoding)
    /\ pc = "done" => stdout[1].meta.sha1 = DigestOf(read, encoding)

\* A report after two lines and a replacement draw that hit the sample.
C11_Witness ==
    /\ pc = "done"
    /\ Len(read) = 2
    /\ m # NoDraw
    /\ m < size

(* ------------------------------- C12 ----------------------------------- *)
\* C12: the draws of random.randint being equally likely, the value of the
\* n-th add call for a key, n > size, is in the sample with probability
\* size / n: of the draws add can make, the share that stores the value is
\* size / n.
C12_InclusionProbability ==
    (calls # <<>> /\ m # NoDraw) =>
        LET n == counter[calls[Len(calls)].key] IN
        Cardinality({d \in DrawRange(n) : d < size}) * n
            = size * Cardinality(DrawRange(n))

(* ------------------------------- C13 ----------------------------------- *)
\* The walk is about to visit a (key, child) pair of a mapping.
AtPair == pc = "walk" /\ ~stack[Len(stack)].list
\* The path of that pair.
PairPath == stack[Len(stack)].prefix \o Head(stack[Len(stack)].items).k

\* C13: the visit of a (key, child) pair of a mapping adds exactly one to
\* the counter of prefix + key, creating it at one when the path is new,
\* whatever the kind of the child, and changes no other counter; no other
\* step changes a counter.
C13_OncePerPair ==
    [][IF AtPair
       THEN counters' = [k \in DOMAIN counters \cup {PairPath} |->
                           IF k = PairPath
                           THEN (IF k \in DOMAIN counters THEN counters[k] ELSE 0) + 1
                           ELSE counters[k]]
       ELSE counters' = counters]_vars

\* A nested object, an array of three objects and scalars have been walked.
C13_Witness ==
    /\ BetweenLines
    /\ DOMAIN counters = {"a", "b", "b.c", "x", "x[].a"}
    /\ counters["a"] = 1 /\ counters["b"] = 1 /\ counters["b.c"] = 1
    /\ counters["x"] = 1 /\ counters["x[].a"] = 3

(* ------------------------------- C14 ----------------------------------- *)
\* This step reads a line that holds a document that is not a mapping.
ReadsNonMapping ==
    /\ Len(read') = Len(read) + 1
    /\ ~IsBlank(read'[Len(read')])
    /\ Parsed(read'[Len(read')]).t \notin {"dict", "JSONDecodeError"}

\* The walk is about to call count_keys on an array element that is not a
\* mapping.
AtNonMappingItem ==
    /\ pc = "walk"
    /\ stack[Len(stack)].list
    /\ Head(stack[Len(stack)].items).t # "dict"

\* C14: count_keys called with a value that is not a mapping, at the root
\* or on an array element, changes no counter, sample, unique set or
\* occurrence count and starts no loop; the run does not fail, and at the
\* root it goes on to the next line.
C14_NonMappingNoOp ==
    /\ [][ReadsNonMapping =>
            /\ UNCHANGED <<counters, storage, uniq, counter, calls>>
            /\ pc' = "read" /\ stack' = <<>>]_vars
    /\ [][AtNonMappingItem =>
            /\ UNCHANGED <<counters, storage, uniq, counter, calls>>
            /\ pc' # "failed"
            /\ Len(stack') <= Len(stack)]_vars

\* A bare array at the root, then a document whose array ends in a scalar.
C14_Witness ==
    /\ pc = "done"
    /\ Len(read) = 2
    /\ Parsed(read[1]).t = "list"
    /\ total = 2
    /\ DOMAIN counters = {"x", "x[].a"}
    /\ counters["x[].a"] = 3

(* ------------------------------- C15 ----------------------------------- *)
Same(a, b) == a.t = b.t /\ a.v = b.v

\* s is a subsequence of t.
RECURSIVE IsSubseq(_, _)
IsSubseq(s, t) ==
    IF s = <<>> THEN TRUE
    ELSE IF t = <<>> THEN FALSE
    ELSE IF Same(Head(s), Head(t)) THEN IsSubseq(Tail(s), Tail(t))
    ELSE IsSubseq(s, Tail(t))

\* The values stored for the add calls of key, oldest first.
Arrivals(key) ==
    [i \in 1 .. Len(CallsFor(key)) |->
        LET v == CallsFor(key)[i].value IN
        IF v.t = "str" THEN PyStr(StoredForm(v.v)) ELSE v]

\* C15 as stated: the sample of every key is a subsequence of the values
\* added for that key.
C15_Subsequence ==
    \A k \in DOMAIN storage : IsSubseq(storage[k], Arrivals(k))

\* C15 amended: slot i of the sample of a key holds the i-th value added
\* for that key or a value added after it.
C15_SlotHoldsLaterArrival ==
    \A k \in DOMAIN storage :
        \A i \in 1 .. Len(storage[k]) :
            \E j \in i .. Len(Arrivals(k)) : Same(storage[k][i], Arrivals(k)[j])

\* The third value of a key replaced the first of a sample of two.
C15_Witness ==
    /\ size = 2
    /\ "x[].a" \in DOMAIN storage
    /\ storage["x[].a"] = <<PyInt(5), PyInt(3)>>

(* ------------------------------- C16 ----------------------------------- *)
\* The value the last add call works with.
LastValue ==
    IF LastCall.value.t = "str" THEN PyStr(StoredForm(LastCall.value.v))
    ELSE LastCall.value

\* C16: no step removes a member from a unique set; a unique set with size
\* members is never changed again; and an add of a string, integer, float
\* or boolean to a unique set with fewer than size members leaves the set
\* holding that value or its equal.
C16_UniqFrozenWhenFull ==
    /\ [][\A k \in DOMAIN uniq :
            /\ k \in DOMAIN uniq'
            /\ uniq[k] \subseteq uniq'[k]
            /\ Cardinality(uniq[k]) >= size => uniq'[k] = uniq[k]]_vars
    /\ [][(/\ AddStep
           /\ LastValue.t \in {"str", "int", "float", "bool"}
           /\ Cardinality(Get(uniq, LastCall.key, {})) < size) =>
             /\ \E e \in uniq'[LastCall.key] : PyEq(e, LastValue)
             /\ uniq'[LastCall.key] \subseteq Get(uniq, LastCall.key, {}) \cup {LastValue}
          ]_vars

\* Three different values were added and the unique set kept the first.
C16_Witness ==
    /\ size = 1
    /\ "x[].a" \in DOMAIN uniq
    /\ counter["x[].a"] = 3
    /\ uniq["x[].a"] = {PyInt(1)}

(* ------------------------------- C17 ----------------------------------- *)
\* Every key of f is a key of g with a value at least as large.
Grows(f, g) == \A k \in DOMAIN f : k \in DOMAIN g /\ g[k] >= f[k]

\* C17: no step removes a path from the counter or from the occurrence
\* counts of the sampler, or lowers a count.
C17_Monotonic ==
    [][Grows(counters, counters') /\ Grows(counter, counter')]_vars

\* Paths counted twice, over two documents.
C17_Witness ==
    /\ "a" \in DOMAIN counter /\ counter["a"] = 2
    /\ "b" \in DOMAIN counters /\ counters["b"] = 2
    /\ "b.c" \in DOMAIN counters /\ counters["b.c"] = 2

(* ------------------------------- C18 ----------------------------------- *)
Min(a, b) == IF a < b THEN a ELSE b

\* C18: the sample of a key has min(size, occurrences) values; an add to a
\* full sample keeps its length, changes no slot but the one at the drawn
\* index, and writes only when that index is a slot of the sample; no add
\* changes the sample of another key.
C18_LengthAndSlot ==
    /\ [](/\ DOMAIN storage = DOMAIN counter
          /\ \A k \in DOMAIN storage : Len(storage[k]) = Min(size, counter[k]))
    /\ [][AddStep =>
            LET key == LastCall.key
                old == Get(storage, key, <<>>) IN
            /\ \A k \in DOMAIN storage : k # key => storage'[k] = storage[k]
            /\ Len(old) >= size =>
                  /\ Len(storage'[key]) = Len(old)
                  /\ \A i \in 1 .. Len(old) :
                        ~Same(storage'[key][i], old[i]) => i = m' + 1
                  /\ m' < size => m' + 1 \in 1 .. Len(old)
          ]_vars

\* A replacement in the second slot of a full sample of two.
C18_Witness ==
    /\ size = 2
    /\ m = 1
    /\ "x[].a" \in DOMAIN storage
    /\ storage["x[].a"] = <<PyInt(1), PyInt(5)>>

(* ------------------------------- C19 ----------------------------------- *)
\* C19: for every key that has received at most size values, the unique
\* set is the set-reduction of the sample without null.
C19_AgreeUpToNull ==
    \A k \in DOMAIN counter :
        counter[k] <= size =>
            uniq[k] = {e \in unique_storage[k] : e.t # "null"}

\* A sample of an integer and a null, not yet over size.
C19_Witness ==
    /\ size = 2
    /\ "a" \in DOMAIN storage
    /\ storage["a"] = <<PyInt(1), PyNone>>
    /\ uniq["a"] = {PyInt(1)}

(* ------------------------------- C20 ----------------------------------- *)
\* C20: after every fully walked document the sample, the unique sets and
\* the occurrence counts have the same keys, each of them is a counted
\* path, and its count is at least its number of add calls.
C20_KeySets ==
    BetweenLines =>
        /\ DOMAIN storage = DOMAIN uniq
        /\ DOMAIN uniq = DOMAIN counter
        /\ DOMAIN counter \subseteq DOMAIN counters
        /\ \A k \in DOMAIN counter : counters[k] >= counter[k]

\* A path seen once as a scalar and once as an array, and a null-only key.
C20_Witness ==
    /\ BetweenLines
    /\ "a" \in DOMAIN counter
    /\ counters["a"] = 2
    /\ counter["a"] = 1
    /\ uniq["a"] = {}

=============================================================================
